---- MODULE Spec2Model ----
(***************************************************************************)
(* Model of the event-routing core of slack-machine                        *)
(* (src/machine/handlers.py): the five socket-mode request listeners, the   *)
(* bot-mention matcher and the asyncio.gather fan-out to plugin handlers.   *)
(*                                                                         *)
(* One inbound request is delivered to every listener.  Every action is    *)
(* the code a coroutine runs between two suspension points (await), which   *)
(* asyncio runs atomically.  Texts are sequences of one-character strings.  *)
(*                                                                         *)
(* The module also models the SQLite storage backend                       *)
(* (src/machine/storage/backends/sqlite.py) and the registration of plugin *)
(* handlers in RegisteredActions (src/machine/models/core.py), each under a *)
(* specification of its own.                                                *)
(***************************************************************************)
EXTENDS Integers, Sequences, FiniteSets, TLC

VARIABLES
    request,        \* the SocketModeRequest: [type, payload]; dicts are mutated in place
    received,       \* the request as the gateway delivered it (history, never written)
    pc,             \* position of each listener coroutine
    acks,           \* SocketModeResponses sent: sequence of [by, payload]
    respond_to_msg, \* handle_message: result of _check_bot_mention ("None", "event", "unset")
    msg_event,      \* handle_message: the event dict handed to dispatch_listeners
    launched,       \* per listener: the handler calls it has created
    hstate,         \* per handler call: idle, active, done, failed, hung, cancelled
    hsteps,         \* per handler call: steps of handler code executed
    hcalls,         \* per handler: number of times its function was called
    hvalues,        \* per generator handler: the values it has produced
    hpost,          \* per generator handler: steps executed after its first produced value
    harg,           \* per handler call: the dict its context object wraps
    payload,        \* handle_slash_command_request: value of gen.__anext__()
    looked_up,      \* dispatch_listeners: slack_client.get_user was awaited
    sent,           \* messages sent through the webhook client of a View context
    say_ret,        \* what the last call of View.say returned ("unset" before any)
    build,          \* SQLiteStorage: the side of the unresolved merge the build keeps
    clock,          \* time.time() in whole seconds
    rows,           \* SQLiteStorage: the rows of the storage table, by key
    result,         \* SQLiteStorage: the last method called and what it returned
    written,        \* per key: when, with what value and ttl it was last set (history)
    registry,       \* the RegisteredActions instance while plugins are being registered
    reg_log         \* the registrations made so far, in order (history)

\* the variables of the dispatchers
dispatch_vars == <<request, received, pc, acks, respond_to_msg, msg_event, launched, hstate,
                   hsteps, hcalls, hvalues, hpost, harg, payload, looked_up, sent, say_ret>>
\* the variables of the View context's outbound webhook
outbound_vars == <<sent, say_ret>>
\* the variables of the storage backend
storage_vars == <<build, clock, rows, result, written>>
\* the variables of plugin registration
registry_vars == <<registry, reg_log>>

vars == <<dispatch_vars, storage_vars, registry_vars>>

-----------------------------------------------------------------------------
(* Bounds of the model *)

\* steps of its own code a handler call may execute
MaxSteps == 1
\* spaces that may follow the addressing prefix of a generated message text
MaxPad == 2
\* the largest ttl, in seconds, a stored entry is given
MaxTtl == 2
\* time.time() in whole seconds when the storage is opened (an epoch time is
\* far larger than any ttl)
StartClock == 10
\* seconds that may elapse after the storage is opened
MaxElapsed == 3
\* registrations made while plugins are loaded
MaxRegistrations == 3

-----------------------------------------------------------------------------
(* Python values *)

\* Python's None where a text is expected (no text is a one-element sequence
\* whose element is longer than one character)
None == <<"None">>

\* d[k] = v on a dict
Put(d, k, v) == [j \in DOMAIN d \cup {k} |-> IF j = k THEN v ELSE d[j]]

\* d.get(k, default)
Get(d, k, default) == IF k \in DOMAIN d THEN d[k] ELSE default

\* the dict with no key
EmptyDict == [j \in {} |-> None]

\* s[i:] for a 0-based index i, as a sequence
Drop(s, i) == SubSeq(s, i + 1, Len(s))

\* s.startswith(p)
StartsWith(s, p) == Len(p) <= Len(s) /\ SubSeq(s, 1, Len(p)) = p

\* a literal pattern p searched (unanchored) in s: re.search of a literal
Search(p, s) == \E i \in 0..(Len(s) - Len(p)) : SubSeq(s, i + 1, i + Len(p)) = p

-----------------------------------------------------------------------------
(* Configuration: the bot's identity and the ALIASES setting *)

bot_id == <<"U", "1", "2", "3">>
bot_name == <<"a", "l", "i", "c", "e">>
\* settings["ALIASES"].split(",") for ALIASES = "bot,assistant"
ALIASES == << <<"b", "o", "t">>, <<"a", "s", "s", "i", "s", "t", "a", "n", "t">> >>

\* the characters \w matches among those the model's texts use
WordChars == {"a", "b", "c", "d", "e", "g", "h", "i", "l", "m", "n", "o", "p", "s", "t", "y",
              "U", "1", "2", "3", "9", "7", "_"}

-----------------------------------------------------------------------------
\* generate_message_matcher: the compiled pattern, matched from the start of the
\* text under re.DOTALL.  It is an alternation of three addressing prefixes,
\*   1. "<@" atuser ">" and an optional ":"   (atuser: one or more \w)
\*   2. username ":"                            (username: one or more \w)
\*   3. alias                                   (one of the ALIASES, escaped; the
\*                                               f-string puts it after the ":" of 2,
\*                                               inside the alternation, so no colon
\*                                               follows it)
\* followed by one optional space and the group text, which takes any rest.
\* The tail matches any rest, so the first alternative that matches at the
\* start of the text is the one taken.

\* length of the longest run of \w characters of s starting at 0-based index i
RECURSIVE WordRun(_, _)
WordRun(s, i) ==
    IF i < Len(s) /\ s[i + 1] \in WordChars THEN 1 + WordRun(s, i + 1) ELSE 0

\* index of the first alias (in the order of the setting) that starts s, 0 if none
RECURSIVE FirstAlias(_, _)
FirstAlias(s, k) ==
    IF k > Len(ALIASES) THEN 0
    ELSE IF StartsWith(s, ALIASES[k]) THEN k
    ELSE FirstAlias(s, k + 1)

\* TextGroup without the optional space of the pattern: the group text takes
\* everything after the prefix
TextGroupKeepsSpace(s, i) == Drop(s, i)

\* the tail of the pattern applied at 0-based index i: one optional space, then
\* the group text takes the rest
TextGroup(s, i) ==
    IF i < Len(s) /\ s[i + 1] = " " THEN Drop(s, i + 1) ELSE Drop(s, i)

NoMatch == [matched |-> FALSE, atuser |-> None, username |-> None, alias |-> None, text |-> None]

\* message_matcher.match(full_text): matched, and m.groupdict()
MatcherMatch(s) ==
    LET n2 == WordRun(s, 2)
        n0 == WordRun(s, 0)
        k == FirstAlias(s, 1)
    IN  IF StartsWith(s, <<"<", "@">>) /\ n2 >= 1 /\ 2 + n2 < Len(s) /\ s[2 + n2 + 1] = ">"
        THEN \* alternative 1: the user-mention token
             LET end == IF 3 + n2 < Len(s) /\ s[3 + n2 + 1] = ":" THEN 4 + n2 ELSE 3 + n2
             IN  [matched |-> TRUE, atuser |-> SubSeq(s, 3, 2 + n2), username |-> None,
                  alias |-> None, text |-> TextGroup(s, end)]
        ELSE IF n0 >= 1 /\ n0 < Len(s) /\ s[n0 + 1] = ":"
        THEN \* alternative 2: a name and a colon
             [matched |-> TRUE, atuser |-> None, username |-> SubSeq(s, 1, n0),
              alias |-> None, text |-> TextGroup(s, n0 + 1)]
        ELSE IF k > 0
        THEN \* alternative 3: the alias alone
             [matched |-> TRUE, atuser |-> None, username |-> None,
              alias |-> ALIASES[k], text |-> TextGroup(s, Len(ALIASES[k]))]
        ELSE NoMatch

\* Python truthiness of an optional str
Truthy(v) == v # None /\ v # <<>>

-----------------------------------------------------------------------------
(* _check_bot_mention: the returned value ("None" or "event") and the event *)
(* dict after the in-place assignment to event["text"]                      *)

\* CheckBotMention with a channel message that does not match still returned
CheckBotMentionNoMatchAddressed(event) ==
    LET full_text == Get(event, "text", <<>>)
        channel_type == event.channel_type
        m == MatcherMatch(full_text)
        atuser == IF Truthy(m.alias) THEN bot_id ELSE m.atuser
    IN  IF channel_type = "channel" \/ channel_type = "group"
        THEN IF ~m.matched
             THEN [ret |-> "event", event |-> event]
             ELSE IF atuser # bot_id /\ m.username # bot_name
             THEN [ret |-> "None", event |-> event]
             ELSE [ret |-> "event", event |-> Put(event, "text", m.text)]
        ELSE IF m.matched
             THEN [ret |-> "event", event |-> Put(event, "text", m.text)]
             ELSE [ret |-> "event", event |-> event]

\* CheckBotMention with the match required in every channel type
CheckBotMentionMatchRequired(event) ==
    LET full_text == Get(event, "text", <<>>)
        m == MatcherMatch(full_text)
        atuser == IF Truthy(m.alias) THEN bot_id ELSE m.atuser
    IN  IF ~m.matched
        THEN [ret |-> "None", event |-> event]
        ELSE IF atuser # bot_id /\ m.username # bot_name
        THEN [ret |-> "None", event |-> event]
        ELSE [ret |-> "event", event |-> Put(event, "text", m.text)]

\* CheckBotMention with the text group assigned before the test of who is
\* mentioned: a channel message at another user is not addressed but loses its prefix
CheckBotMentionStripsOtherUser(event) ==
    LET full_text == Get(event, "text", <<>>)
        channel_type == event.channel_type
        m == MatcherMatch(full_text)
        atuser == IF Truthy(m.alias) THEN bot_id ELSE m.atuser
    IN  IF channel_type = "channel" \/ channel_type = "group"
        THEN IF ~m.matched
             THEN [ret |-> "None", event |-> event]
             ELSE IF atuser # bot_id /\ m.username # bot_name
             THEN [ret |-> "None", event |-> Put(event, "text", m.text)]
             ELSE [ret |-> "event", event |-> Put(event, "text", m.text)]
        ELSE IF m.matched
             THEN [ret |-> "event", event |-> Put(event, "text", m.text)]
             ELSE [ret |-> "event", event |-> event]

\* CheckBotMention stripping the prefix of a direct message only when it names
\* the bot
CheckBotMentionDmBotOnly(event) ==
    LET full_text == Get(event, "text", <<>>)
        channel_type == event.channel_type
        m == MatcherMatch(full_text)
        atuser == IF Truthy(m.alias) THEN bot_id ELSE m.atuser
    IN  IF channel_type = "channel" \/ channel_type = "group"
        THEN IF ~m.matched
             THEN [ret |-> "None", event |-> event]
             ELSE IF atuser # bot_id /\ m.username # bot_name
             THEN [ret |-> "None", event |-> event]
             ELSE [ret |-> "event", event |-> Put(event, "text", m.text)]
        ELSE IF m.matched /\ ~(atuser # bot_id /\ m.username # bot_name)
             THEN [ret |-> "event", event |-> Put(event, "text", m.text)]
             ELSE [ret |-> "event", event |-> event]

CheckBotMention(event) ==
    LET full_text == Get(event, "text", <<>>)
        channel_type == event.channel_type
        m == MatcherMatch(full_text)
        atuser == IF Truthy(m.alias) THEN bot_id ELSE m.atuser
    IN  IF channel_type = "channel" \/ channel_type = "group"
        THEN IF ~m.matched
             THEN [ret |-> "None", event |-> event]
             ELSE IF atuser # bot_id /\ m.username # bot_name
             THEN [ret |-> "None", event |-> event]
             ELSE [ret |-> "event", event |-> Put(event, "text", m.text)]
        ELSE IF m.matched
             THEN [ret |-> "event", event |-> Put(event, "text", m.text)]
             ELSE [ret |-> "event", event |-> event]

-----------------------------------------------------------------------------
(* The registry (RegisteredActions) the dispatchers read.  It is populated   *)
(* before dispatch begins and is not written during dispatch.                *)

MessageHandlerNames == {"L1", "L2", "R1", "R2"}
ProcessHandlerNames == {"P1", "P2", "P3"}
Handlers == MessageHandlerNames \cup ProcessHandlerNames \cup {"CmdPlain", "CmdGen", "I1", "V1"}

\* MessageHandler.regex (a literal) and MessageHandler.handle_message_changed
regex == [h \in MessageHandlerNames |->
            CASE h = "L1" -> <<"t", "h", "i", "n", "g">>
              [] h = "L2" -> <<"d", "o">>
              [] h = "R1" -> <<"d", "o">>
              [] h = "R2" -> <<"e", "m", "p", "t", "y">>]
handle_message_changed == [h \in MessageHandlerNames |-> h \in {"L2", "R1"}]

\* CommandHandler.is_generator
is_generator == [h \in Handlers |-> h = "CmdGen"]

plugin_actions ==
    [listen_to   |-> <<"L1", "L2">>,
     respond_to  |-> <<"R1", "R2">>,
     interactive |-> [a1 |-> "I1"],
     view        |-> [v1 |-> "V1"],
     process     |-> [reaction_added |-> {"P1", "P2", "P3"}],
     command     |-> [hello |-> "CmdPlain", deploy |-> "CmdGen"]]

\* the elements of a sequence
Range(s) == {s[i] : i \in DOMAIN s}

-----------------------------------------------------------------------------
(* Inbound requests *)

Mention(u) == <<"<", "@">> \o u \o <<">">>
U999 == <<"U", "9", "9", "9">>
U777 == <<"U", "7", "7", "7">>
DoThing == <<"d", "o", " ", "t", "h", "i", "n", "g">>

\* n spaces
RECURSIVE Spaces(_)
Spaces(n) == IF n = 0 THEN <<>> ELSE <<" ">> \o Spaces(n - 1)

\* what a generated text starts with
Heads == {<<>>, Mention(bot_id), Mention(U999), <<"<", "@", ">">>, bot_name,
          <<"b", "o", "b">>, ALIASES[1], ALIASES[2]}
\* what follows the prefix
Bodies == {<<>>, DoThing, <<"t", "l", "e", " ", "i", "s", " ", "e", "m", "p", "t", "y">>}

\* message texts: a head, an optional colon, up to MaxPad spaces, a body
Texts == {h \o c \o Spaces(n) \o b : h \in Heads, c \in {<<>>, <<":">>}, n \in 0..MaxPad, b \in Bodies}

\* the texts the dispatch specification draws from
FewTexts == {DoThing, bot_name \o <<":", " ">> \o DoThing}

ChannelTypes == {"channel", "group", "im"}

\* a message event: the user and the text may be absent
PlainMessages(texts, ctypes) ==
    LET base == {[type |-> "message", channel |-> "C1", channel_type |-> ct] : ct \in ctypes}
        withUser == base \cup {Put(e, "user", u) : e \in base, u \in {bot_id, U777}}
    IN  withUser \cup {Put(e, "text", t) : e \in withUser, t \in texts}

\* an edit: the edited message is nested under "message"; the event itself
\* names a user too, who is not the sender of the edited message
ChangedMessages(texts, ctypes) ==
    LET inner == {[type |-> "message"]} \cup {[type |-> "message", user |-> u] : u \in {bot_id, U777}}
        innerT == inner \cup {Put(e, "text", t) : e \in inner, t \in texts}
    IN  {[type |-> "message", subtype |-> "message_changed", channel |-> "C1", user |-> U777,
          channel_type |-> ct, message |-> m] : ct \in ctypes, m \in innerT}

EventsApi(events) == {[type |-> "events_api", payload |-> [event |-> e]] : e \in events}

MessageRequests(texts, ctypes) ==
    EventsApi(PlainMessages(texts, ctypes) \cup ChangedMessages(texts, ctypes))

OtherEventRequests ==
    EventsApi({[type |-> "reaction_added", user |-> U777], [type |-> "channel_created"]})

SlashRequests ==
    {[type |-> "slash_commands", payload |-> [command |-> c]] : c \in {"hello", "deploy", "unknown"}}

BlockActionPayloads ==
    LET base == {[type |-> "block_actions"],
                 [type |-> "block_actions", actions |-> <<>>],
                 [type |-> "block_actions", actions |-> <<[type |-> "button"]>>],
                 [type |-> "block_actions", actions |-> <<[type |-> "button", action_id |-> "a1"]>>],
                 [type |-> "block_actions", actions |-> <<[type |-> "button", action_id |-> "zz"]>>]}
    IN  base \cup {Put(p, "response_url", "https://hooks/1") : p \in base}

ViewPayloads ==
    LET base == {[type |-> "view_submission"],
                 [type |-> "view_submission", view |-> [id |-> "V0"]],
                 [type |-> "view_submission", view |-> [id |-> "V0", callback_id |-> "v1"]],
                 [type |-> "view_submission", view |-> [id |-> "V0", callback_id |-> "zz"]]}
    IN  base \cup {Put(p, "response_urls", us) : p \in base,
                   us \in {<<>>, <<[response_url |-> "https://hooks/1"], [response_url |-> "https://hooks/2"]>>}}

InteractiveRequests ==
    {[type |-> "interactive", payload |-> p] :
        p \in BlockActionPayloads \cup ViewPayloads \cup {[type |-> "shortcut"]}}

Requests ==
    MessageRequests(FewTexts, {"channel", "im"}) \cup OtherEventRequests
        \cup SlashRequests \cup InteractiveRequests
        \cup {[type |-> "hello", payload |-> EmptyDict]}

-----------------------------------------------------------------------------
(* SQLiteStorage (src/machine/storage/backends/sqlite.py).  The file holds an *)
(* unresolved merge: every method has a HEAD side and an "interactive" side.  *)
(* A build keeps one side throughout (the sides name different tables and     *)
(* columns).  A method call is modelled as one step: the claims about the     *)
(* backend are about calls made one after the other.                           *)

Builds == {"HEAD", "interactive"}
Keys == {"k1", "k2"}
StoredValues == {"a", "bb"}
\* len(value), and len(key) of every key
ValueBytes == [v \in StoredValues |-> IF v = "a" THEN 1 ELSE 2]
KeyBytes == 2

\* the expires argument and the expires column: <<>> is None (NULL), <<n>> is n
NoExpiry == <<>>
Expiries == {NoExpiry} \cup {<<n>> : n \in 0..MaxTtl}

NoResult == [op |-> "none", key |-> "", at |-> 0, got |-> <<>>, has |-> 0, size |-> 0]

\* set, lines 48-71: INSERT OR REPLACE of the row of the key.  HEAD stores the
\* expires argument as it is; "interactive" stores int(time.time()) + expires
Set(key, value, expires) ==
    /\ rows' = Put(rows, key, [value |-> value,
                               expires |-> IF build = "interactive" /\ expires # NoExpiry
                                           THEN <<clock + expires[1]>> ELSE expires])
    /\ result' = [NoResult EXCEPT !.op = "set", !.key = key, !.at = clock]
    /\ written' = Put(written, key, [at |-> clock, value |-> value, ttl |-> expires])
    /\ UNCHANGED <<build, clock>>
    /\ UNCHANGED <<dispatch_vars, registry_vars>>

\* the WHERE clause of get and has: key = ? AND (expires > ? OR expires IS NULL),
\* with int(time.time()) as the second parameter
Selected(key) ==
    /\ key \in DOMAIN rows
    /\ \/ rows[key].expires = NoExpiry
       \/ rows[key].expires # NoExpiry /\ rows[key].expires[1] > clock

\* get, lines 73-94: the value of the selected row, or None
GetValue(key) ==
    /\ result' = [NoResult EXCEPT !.op = "get", !.key = key, !.at = clock,
                                  !.got = IF Selected(key) THEN <<rows[key].value>> ELSE <<>>]
    /\ UNCHANGED <<build, clock, rows, written>>
    /\ UNCHANGED <<dispatch_vars, registry_vars>>

\* Has with a WHERE clause of the key alone: a row past its expiry is still seen
HasIgnoresExpiry(key) ==
    /\ result' = [NoResult EXCEPT !.op = "has", !.key = key, !.at = clock,
                                  !.has = IF key \in DOMAIN rows THEN 1 ELSE 0]
    /\ UNCHANGED <<build, clock, rows, written>>
    /\ UNCHANGED <<dispatch_vars, registry_vars>>

\* has, lines 101-119: the value of SELECT EXISTS, 1 or 0
Has(key) ==
    /\ result' = [NoResult EXCEPT !.op = "has", !.key = key, !.at = clock,
                                  !.has = IF Selected(key) THEN 1 ELSE 0]
    /\ UNCHANGED <<build, clock, rows, written>>
    /\ UNCHANGED <<dispatch_vars, registry_vars>>

\* delete, lines 96-107
Delete(key) ==
    /\ rows' = [k \in DOMAIN rows \ {key} |-> rows[k]]
    /\ written' = [k \in DOMAIN written \ {key} |-> written[k]]
    /\ result' = [NoResult EXCEPT !.op = "delete", !.key = key, !.at = clock]
    /\ UNCHANGED <<build, clock>>
    /\ UNCHANGED <<dispatch_vars, registry_vars>>

\* the payload bytes SQLite stores for the row of a key: a record header of four
\* bytes (its length and one serial type per column), the bytes of key and
\* value, and one byte for an expiry time that is an integer other than 0 and 1
RecordBytes(key) ==
    4 + KeyBytes + ValueBytes[rows[key].value]
      + (IF rows[key].expires = NoExpiry \/ rows[key].expires[1] \in {0, 1} THEN 0 ELSE 1)

\* the sum of RecordBytes over a set of keys
RECURSIVE PayloadBytes(_)
PayloadBytes(ks) ==
    IF ks = {} THEN 0
    ELSE LET k == CHOOSE x \in ks : TRUE
         IN  RecordBytes(k) + PayloadBytes(ks \ {k})

\* size, lines 121-130.  HEAD: SELECT COUNT(*), the number of rows, expired ones
\* included; "interactive": the aggregate payload of the table in dbstat, a
\* number of bytes
Size ==
    /\ result' = [NoResult EXCEPT !.op = "size", !.at = clock,
                                  !.size = IF build = "HEAD" THEN Cardinality(DOMAIN rows)
                                           ELSE PayloadBytes(DOMAIN rows)]
    /\ UNCHANGED <<build, clock, rows, written>>
    /\ UNCHANGED <<dispatch_vars, registry_vars>>

\* a second passes
Tick ==
    /\ clock < StartClock + MaxElapsed
    /\ clock' = clock + 1
    /\ UNCHANGED <<build, rows, result, written>>
    /\ UNCHANGED <<dispatch_vars, registry_vars>>

\* init, lines 28-46: the table exists and is empty
StorageInit(builds) ==
    /\ build \in builds
    /\ clock = StartClock
    /\ rows = EmptyDict
    /\ result = NoResult
    /\ written = EmptyDict

-----------------------------------------------------------------------------
(* Registration of plugin handlers in a RegisteredActions instance.  The      *)
(* five mappings hold one handler per trigger; process holds, per event type, *)
(* a mapping of handler name to handler.                                      *)

Kinds == {"listen_to", "respond_to", "interactive", "view", "command"}
Triggers == {"t1", "t2"}
Functions == {"f1", "f2"}
EventTypes == {"reaction_added"}
FunctionNames == {"n1", "n2"}

\* RegisteredActions(): every field is an empty dict
EmptyRegistry ==
    [listen_to |-> EmptyDict, respond_to |-> EmptyDict, interactive |-> EmptyDict,
     view |-> EmptyDict, process |-> EmptyDict, command |-> EmptyDict]

\* Register keeping the handler a trigger already has (dict.setdefault)
RegisterKeepsFirst(kind, trigger, handler) ==
    /\ Len(reg_log) < MaxRegistrations
    /\ registry' = [registry EXCEPT ![kind] =
                        IF trigger \in DOMAIN @ THEN @ ELSE Put(@, trigger, handler)]
    /\ reg_log' = Append(reg_log, [kind |-> kind, trigger |-> trigger, handler |-> handler])
    /\ UNCHANGED <<dispatch_vars, storage_vars>>

\* register(kind, trigger, handler): inserts or replaces
Register(kind, trigger, handler) ==
    /\ Len(reg_log) < MaxRegistrations
    /\ registry' = [registry EXCEPT ![kind] = Put(@, trigger, handler)]
    /\ reg_log' = Append(reg_log, [kind |-> kind, trigger |-> trigger, handler |-> handler])
    /\ UNCHANGED <<dispatch_vars, storage_vars>>

\* registration of a process handler: many handlers per event type, each under
\* its own name
RegisterProcess(type, name, handler) ==
    /\ Len(reg_log) < MaxRegistrations
    /\ registry' = [registry EXCEPT !.process =
                        Put(@, type, Put(Get(@, type, EmptyDict), name, handler))]
    /\ reg_log' = Append(reg_log, [kind |-> "process", trigger |-> type, handler |-> handler])
    /\ UNCHANGED <<dispatch_vars, storage_vars>>

\* lookup(kind, trigger): the handler, or "absent" (the tests "in" and the
\* subscripts of the dispatchers)
Lookup(kind, trigger) == Get(registry[kind], trigger, "absent")

RegistryInit ==
    /\ registry = EmptyRegistry
    /\ reg_log = <<>>

-----------------------------------------------------------------------------
(* Initial states: a request has arrived and no listener has run yet *)

Listeners == {"message", "command", "event", "interactive", "view"}

\* the value a bare SocketModeResponse carries as payload
NoPayload == "None"
\* the values an incremental handler may produce
Values == {"v1", "v2"}

DispatchInit(reqs) ==
    /\ request \in reqs
    /\ received = request
    /\ pc = [d \in Listeners |-> "start"]
    /\ acks = <<>>
    /\ respond_to_msg = "unset"
    /\ msg_event = EmptyDict
    /\ launched = [d \in Listeners |-> {}]
    /\ hstate = [h \in Handlers |-> "idle"]
    /\ hsteps = [h \in Handlers |-> 0]
    /\ hcalls = [h \in Handlers |-> 0]
    /\ hvalues = [h \in Handlers |-> <<>>]
    /\ hpost = [h \in Handlers |-> 0]
    /\ harg = [h \in Handlers |-> EmptyDict]
    /\ payload = NoPayload
    /\ looked_up = FALSE
    /\ sent = <<>>
    /\ say_ret = "unset"

\* the dispatchers call neither the storage backend nor the registration
InitWith(reqs) ==
    /\ DispatchInit(reqs)
    /\ StorageInit({"HEAD"})
    /\ RegistryInit

Init == InitWith(Requests)

-----------------------------------------------------------------------------
(* Plugin handler calls.  A call is a coroutine: it executes steps of its    *)
(* own code, suspending between them, until it returns, raises, or awaits    *)
(* something that never resolves.  What a handler does is the plugin's       *)
(* choice, so every outcome is possible at every point.  A call awaited      *)
(* directly ("await fn(...)") completes its listener in the same run; a call *)
(* handed to asyncio.gather runs as a task of its own.                        *)

\* the listener that created the call
Owner(h) == CHOOSE d \in Listeners : h \in launched[d]

\* an async generator runs only while the listener awaits gen.__anext__()
Runnable(h) ==
    /\ hstate[h] = "active"
    /\ is_generator[h] => pc["command"] \in {"anext1", "anext2"}

\* the handler executes one step of its code and suspends again
HStep(h) ==
    /\ Runnable(h)
    /\ hsteps[h] < MaxSteps
    /\ hsteps' = [hsteps EXCEPT ![h] = @ + 1]
    /\ hpost' = [hpost EXCEPT ![h] = IF Len(hvalues[h]) > 0 THEN @ + 1 ELSE @]
    /\ UNCHANGED <<request, received, pc, acks, respond_to_msg, msg_event, launched, hstate,
                   hcalls, hvalues, harg, payload, looked_up>>
    /\ UNCHANGED <<storage_vars, registry_vars, outbound_vars>>

\* the listener's position once a call it awaits directly has ended
AfterCall(h, outcome) ==
    IF is_generator[h]
    THEN \* line 80: StopAsyncIteration and errors propagate; lines 84-87: a
         \* StopAsyncIteration of the second __anext__ is caught, errors propagate
         [pc EXCEPT !["command"] =
            IF outcome = "return" /\ pc["command"] = "anext2" THEN "returned" ELSE "raised"]
    ELSE IF pc[Owner(h)] = "await_fn"
    THEN [pc EXCEPT ![Owner(h)] = IF outcome = "return" THEN "returned" ELSE "raised"]
    ELSE pc

\* the handler returns
HReturn(h) ==
    /\ Runnable(h)
    /\ hstate' = [hstate EXCEPT ![h] = "done"]
    /\ pc' = AfterCall(h, "return")
    /\ UNCHANGED <<request, received, acks, respond_to_msg, msg_event, launched, hsteps,
                   hcalls, hvalues, hpost, harg, payload, looked_up>>
    /\ UNCHANGED <<storage_vars, registry_vars, outbound_vars>>

\* the handler raises
HRaise(h) ==
    /\ Runnable(h)
    /\ hstate' = [hstate EXCEPT ![h] = "failed"]
    /\ pc' = AfterCall(h, "raise")
    /\ UNCHANGED <<request, received, acks, respond_to_msg, msg_event, launched, hsteps,
                   hcalls, hvalues, hpost, harg, payload, looked_up>>
    /\ UNCHANGED <<storage_vars, registry_vars, outbound_vars>>

\* the handler awaits something that never resolves
HHang(h) ==
    /\ Runnable(h)
    /\ hstate' = [hstate EXCEPT ![h] = "hung"]
    /\ UNCHANGED <<request, received, pc, acks, respond_to_msg, msg_event, launched, hsteps,
                   hcalls, hvalues, hpost, harg, payload, looked_up>>
    /\ UNCHANGED <<storage_vars, registry_vars, outbound_vars>>

\* an async generator handler produces the value v: the pending __anext__ of
\* the listener returns it (line 80: it becomes the payload; line 85: it is dropped
\* and the listener returns, the generator staying suspended at its yield)
HYield(h, v) ==
    /\ is_generator[h]
    /\ Runnable(h)
    /\ hvalues' = [hvalues EXCEPT ![h] = Append(@, v)]
    /\ IF pc["command"] = "anext1"
       THEN payload' = v /\ pc' = [pc EXCEPT !["command"] = "got_payload"]
       ELSE payload' = payload /\ pc' = [pc EXCEPT !["command"] = "returned"]
    /\ UNCHANGED <<request, received, acks, respond_to_msg, msg_event, launched, hstate, hsteps,
                   hcalls, hpost, harg, looked_up>>
    /\ UNCHANGED <<storage_vars, registry_vars, outbound_vars>>

\* the call of a handler function: the coroutine (or generator) object is
\* created, none of its code has run
Call(hs, arg) ==
    /\ hstate' = [h \in Handlers |-> IF h \in hs THEN "active" ELSE hstate[h]]
    /\ hcalls' = [h \in Handlers |-> IF h \in hs THEN hcalls[h] + 1 ELSE hcalls[h]]
    /\ harg' = [h \in Handlers |-> IF h \in hs THEN arg ELSE harg[h]]

\* the SocketModeResponse for the request's envelope is sent by listener d
SendAck(d, p) == acks' = Append(acks, [by |-> d, payload |-> p])

-----------------------------------------------------------------------------
\* asyncio.gather over handler_funcs, return_exceptions left at False

\* GatherReturn returning as soon as one child has returned (a wait for the
\* first completed instead of a join)
GatherReturnOnFirst(d) ==
    /\ pc[d] = "gather"
    /\ \/ launched[d] = {}
       \/ \E h \in launched[d] : hstate[h] = "done"
    /\ pc' = [pc EXCEPT ![d] = "returned"]
    /\ UNCHANGED <<request, received, acks, respond_to_msg, msg_event, launched, hstate, hsteps,
                   hcalls, hvalues, hpost, harg, payload, looked_up>>
    /\ UNCHANGED <<storage_vars, registry_vars, outbound_vars>>

\* every child has returned: the gather returns and so does the dispatcher
GatherReturn(d) ==
    /\ pc[d] = "gather"
    /\ \A h \in launched[d] : hstate[h] = "done"
    /\ pc' = [pc EXCEPT ![d] = "returned"]
    /\ UNCHANGED <<request, received, acks, respond_to_msg, msg_event, launched, hstate, hsteps,
                   hcalls, hvalues, hpost, harg, payload, looked_up>>
    /\ UNCHANGED <<storage_vars, registry_vars, outbound_vars>>

\* GatherRaise with the children still running cancelled on the first exception
\* (the behaviour of a task group)
GatherRaiseCancels(d) ==
    /\ pc[d] = "gather"
    /\ \E h \in launched[d] : hstate[h] = "failed"
    /\ pc' = [pc EXCEPT ![d] = "raised"]
    /\ hstate' = [h \in Handlers |->
                    IF h \in launched[d] /\ hstate[h] = "active" THEN "cancelled" ELSE hstate[h]]
    /\ UNCHANGED <<request, received, acks, respond_to_msg, msg_event, launched, hsteps,
                   hcalls, hvalues, hpost, harg, payload, looked_up>>
    /\ UNCHANGED <<storage_vars, registry_vars, outbound_vars>>

\* a child has raised: the first exception is propagated at once to the task
\* awaiting the gather; the other children are not cancelled and keep running
GatherRaise(d) ==
    /\ pc[d] = "gather"
    /\ \E h \in launched[d] : hstate[h] = "failed"
    /\ pc' = [pc EXCEPT ![d] = "raised"]
    /\ UNCHANGED <<request, received, acks, respond_to_msg, msg_event, launched, hstate, hsteps,
                   hcalls, hvalues, hpost, harg, payload, looked_up>>
    /\ UNCHANGED <<storage_vars, registry_vars, outbound_vars>>

-----------------------------------------------------------------------------
(* create_message_handler: handle_message_request and handle_message         *)

\* the request is not for this listener: its "if" fails and it returns
Ignore(d) ==
    /\ pc[d] = "start"
    /\ CASE d \in {"message", "event"} -> request.type # "events_api"
         [] d = "command" -> request.type # "slash_commands"
         [] d = "interactive" ->
                ~(request.type = "interactive" /\ request.payload.type = "block_actions")
         [] d = "view" ->
                ~(request.type = "interactive" /\ request.payload.type = "view_submission")
    /\ pc' = [pc EXCEPT ![d] = "returned"]
    /\ UNCHANGED <<request, received, acks, respond_to_msg, msg_event, launched, hstate, hsteps,
                   hcalls, hvalues, hpost, harg, payload, looked_up>>
    /\ UNCHANGED <<storage_vars, registry_vars, outbound_vars>>

\* MsgAck with the acknowledgement sent for message events only
MsgAckMessagesOnly ==
    /\ pc["message"] = "start"
    /\ request.type = "events_api"
    /\ acks' = IF request.payload.event.type = "message"
               THEN Append(acks, [by |-> "message", payload |-> NoPayload]) ELSE acks
    /\ pc' = [pc EXCEPT !["message"] = "acked"]
    /\ UNCHANGED <<request, received, respond_to_msg, msg_event, launched, hstate,
                   hsteps, hcalls, hvalues, hpost, harg, payload, looked_up>>
    /\ UNCHANGED <<storage_vars, registry_vars, outbound_vars>>

\* lines 34-38: acknowledge the request anyway
MsgAck ==
    /\ pc["message"] = "start"
    /\ request.type = "events_api"
    /\ SendAck("message", NoPayload)
    /\ pc' = [pc EXCEPT !["message"] = "acked"]
    /\ UNCHANGED <<request, received, respond_to_msg, msg_event, launched, hstate,
                   hsteps, hcalls, hvalues, hpost, harg, payload, looked_up>>
    /\ UNCHANGED <<storage_vars, registry_vars, outbound_vars>>

\* handle_message lines 201-207: the edited message becomes the event
IsChanged(event) == "subtype" \in DOMAIN event /\ event.subtype = "message_changed"

Promote(event) ==
    IF IsChanged(event)
    THEN Put(Put(Put(event.message, "channel_type", event.channel_type),
                 "channel", event.channel), "subtype", "message_changed")
    ELSE event

\* the request after the in-place writes to the dict the local name event refers to
WriteBack(ev) ==
    IF IsChanged(request.payload.event)
    THEN [request EXCEPT !.payload.event.message = ev]
    ELSE [request EXCEPT !.payload.event = ev]

\* DispatchListeners without the test of handle_message_changed: an edit is
\* offered to every handler
DispatchListenersNoOptIn(event, message_handlers) ==
    {h \in Range(message_handlers) : Search(regex[h], Get(event, "text", <<>>))}

\* SenderOk without the test against the bot's own id
SenderOkSelfAllowed(event) == "user" \in DOMAIN event

\* line 208: the message has a sender and the sender is not the bot
SenderOk(event) == "user" \in DOMAIN event /\ ~(event.user = bot_id)

\* dispatch_listeners lines 278-296: the handlers whose coroutine is created
DispatchListeners(event, message_handlers) ==
    {h \in Range(message_handlers) :
        /\ ~(IsChanged(event) /\ ~handle_message_changed[h])
        /\ Search(regex[h], Get(event, "text", <<>>))}

\* lines 41-51, handle_message, _check_bot_mention and dispatch_listeners up to
\* the await of the gather.  The await of slack_client.get_user inside the loop
\* (FORCE_USER_LOOKUP set, sender not cached) only precedes coroutine creation.
HandleMessage ==
    /\ pc["message"] = "acked"
    /\ LET ev0 == request.payload.event
           event == Promote(ev0)
       IN  IF ev0.type # "message"
           THEN /\ pc' = [pc EXCEPT !["message"] = "returned"]
                /\ UNCHANGED <<request, respond_to_msg, msg_event, launched, hstate,
                               hcalls, harg, looked_up>>
           ELSE IF SenderOk(event)
           THEN LET r == CheckBotMention(event)
                    listeners == IF r.ret = "event"
                                 THEN plugin_actions.listen_to \o plugin_actions.respond_to
                                 ELSE plugin_actions.listen_to
                    handler_funcs == DispatchListeners(r.event, listeners)
                IN  /\ request' = WriteBack(r.event)
                    /\ respond_to_msg' = r.ret
                    /\ msg_event' = r.event
                    /\ launched' = [launched EXCEPT !["message"] = handler_funcs]
                    /\ Call(handler_funcs, r.event)
                    /\ looked_up' \in (IF handler_funcs = {} THEN {FALSE} ELSE BOOLEAN)
                    /\ pc' = [pc EXCEPT !["message"] = "gather"]
           ELSE /\ request' = WriteBack(event)
                /\ pc' = [pc EXCEPT !["message"] = "returned"]
                /\ UNCHANGED <<respond_to_msg, msg_event, launched, hstate, hcalls, harg,
                               looked_up>>
    /\ UNCHANGED <<received, acks, hsteps, hvalues, hpost, payload>>
    /\ UNCHANGED <<storage_vars, registry_vars, outbound_vars>>

-----------------------------------------------------------------------------
(* create_generic_event_handler: handle_event_request                        *)

\* lines 101-105
EvAck ==
    /\ pc["event"] = "start"
    /\ request.type = "events_api"
    /\ SendAck("event", NoPayload)
    /\ pc' = [pc EXCEPT !["event"] = "acked"]
    /\ UNCHANGED <<request, received, respond_to_msg, msg_event, launched, hstate,
                   hsteps, hcalls, hvalues, hpost, harg, payload, looked_up>>
    /\ UNCHANGED <<storage_vars, registry_vars, outbound_vars>>

\* lines 108-111 and dispatch_event_handlers line 304
EvDispatch ==
    /\ pc["event"] = "acked"
    /\ LET event == request.payload.event
       IN  IF event.type \in DOMAIN plugin_actions.process
           THEN LET handler_funcs == plugin_actions.process[event.type]
                IN  /\ launched' = [launched EXCEPT !["event"] = handler_funcs]
                    /\ Call(handler_funcs, event)
                    /\ pc' = [pc EXCEPT !["event"] = "gather"]
           ELSE /\ pc' = [pc EXCEPT !["event"] = "returned"]
                /\ UNCHANGED <<launched, hstate, hcalls, harg>>
    /\ UNCHANGED <<request, received, acks, respond_to_msg, msg_event, hsteps, hvalues, hpost,
                   payload, looked_up>>
    /\ UNCHANGED <<storage_vars, registry_vars, outbound_vars>>

-----------------------------------------------------------------------------
(* create_slash_command_handler: handle_slash_command_request                *)

\* CmdUnknown with the acknowledgement sent before the registry is consulted
CmdUnknownAcked ==
    /\ pc["command"] = "start"
    /\ request.type = "slash_commands"
    /\ request.payload.command \notin DOMAIN plugin_actions.command
    /\ SendAck("command", NoPayload)
    /\ pc' = [pc EXCEPT !["command"] = "returned"]
    /\ UNCHANGED <<request, received, respond_to_msg, msg_event, launched, hstate,
                   hsteps, hcalls, hvalues, hpost, harg, payload, looked_up>>
    /\ UNCHANGED <<storage_vars, registry_vars, outbound_vars>>

\* line 64 fails: nothing is done for a command the registry does not hold
CmdUnknown ==
    /\ pc["command"] = "start"
    /\ request.type = "slash_commands"
    /\ request.payload.command \notin DOMAIN plugin_actions.command
    /\ pc' = [pc EXCEPT !["command"] = "returned"]
    /\ UNCHANGED <<request, received, acks, respond_to_msg, msg_event, launched, hstate, hsteps,
                   hcalls, hvalues, hpost, harg, payload, looked_up>>
    /\ UNCHANGED <<storage_vars, registry_vars, outbound_vars>>

\* the registered command of the request
KnownCommand ==
    /\ request.type = "slash_commands"
    /\ request.payload.command \in DOMAIN plugin_actions.command

\* lines 75-80: the generator object is made and its first value awaited
CmdGenStart ==
    /\ pc["command"] = "start"
    /\ KnownCommand
    /\ LET cmd == plugin_actions.command[request.payload.command]
       IN  /\ is_generator[cmd]
           /\ launched' = [launched EXCEPT !["command"] = {cmd}]
           /\ Call({cmd}, request.payload)
    /\ pc' = [pc EXCEPT !["command"] = "anext1"]
    /\ UNCHANGED <<request, received, acks, respond_to_msg, msg_event, hsteps, hvalues, hpost,
                   payload, looked_up>>
    /\ UNCHANGED <<storage_vars, registry_vars, outbound_vars>>

\* CmdGenAck with a bare acknowledgement: the first value is dropped
CmdGenAckBare ==
    /\ pc["command"] = "got_payload"
    /\ SendAck("command", NoPayload)
    /\ pc' = [pc EXCEPT !["command"] = "anext2"]
    /\ UNCHANGED <<request, received, respond_to_msg, msg_event, launched, hstate,
                   hsteps, hcalls, hvalues, hpost, harg, payload, looked_up>>
    /\ UNCHANGED <<storage_vars, registry_vars, outbound_vars>>

\* lines 81-85: the first value is sent as the acknowledgement's payload, then
\* the generator is resumed once
CmdGenAck ==
    /\ pc["command"] = "got_payload"
    /\ SendAck("command", payload)
    /\ pc' = [pc EXCEPT !["command"] = "anext2"]
    /\ UNCHANGED <<request, received, respond_to_msg, msg_event, launched, hstate,
                   hsteps, hcalls, hvalues, hpost, harg, payload, looked_up>>
    /\ UNCHANGED <<storage_vars, registry_vars, outbound_vars>>

\* lines 88-90: a bare acknowledgement
CmdPlainAck ==
    /\ pc["command"] = "start"
    /\ KnownCommand
    /\ ~is_generator[plugin_actions.command[request.payload.command]]
    /\ SendAck("command", NoPayload)
    /\ pc' = [pc EXCEPT !["command"] = "acked"]
    /\ UNCHANGED <<request, received, respond_to_msg, msg_event, launched, hstate,
                   hsteps, hcalls, hvalues, hpost, harg, payload, looked_up>>
    /\ UNCHANGED <<storage_vars, registry_vars, outbound_vars>>

\* CmdPlainCall with the handler awaited before the acknowledgement is sent
CmdPlainCallBeforeAck ==
    /\ pc["command"] = "start"
    /\ KnownCommand
    /\ LET cmd == plugin_actions.command[request.payload.command]
       IN  /\ ~is_generator[cmd]
           /\ launched' = [launched EXCEPT !["command"] = {cmd}]
           /\ Call({cmd}, request.payload)
    /\ pc' = [pc EXCEPT !["command"] = "await_fn"]
    /\ UNCHANGED <<request, received, acks, respond_to_msg, msg_event, hsteps, hvalues,
                   hpost, payload, looked_up>>
    /\ UNCHANGED <<storage_vars, registry_vars, outbound_vars>>

\* lines 91-92: await fn(command_obj)
CmdPlainCall ==
    /\ pc["command"] = "acked"
    /\ LET cmd == plugin_actions.command[request.payload.command]
       IN  /\ launched' = [launched EXCEPT !["command"] = {cmd}]
           /\ Call({cmd}, request.payload)
    /\ pc' = [pc EXCEPT !["command"] = "await_fn"]
    /\ UNCHANGED <<request, received, acks, respond_to_msg, msg_event, hsteps, hvalues, hpost,
                   payload, looked_up>>
    /\ UNCHANGED <<storage_vars, registry_vars, outbound_vars>>

-----------------------------------------------------------------------------
(* create_interactive_event_handler and create_view_event_handler            *)

\* lines 125-129
IntAck ==
    /\ pc["interactive"] = "start"
    /\ request.type = "interactive" /\ request.payload.type = "block_actions"
    /\ SendAck("interactive", NoPayload)
    /\ pc' = [pc EXCEPT !["interactive"] = "acked"]
    /\ UNCHANGED <<request, received, respond_to_msg, msg_event, launched, hstate,
                   hsteps, hcalls, hvalues, hpost, harg, payload, looked_up>>
    /\ UNCHANGED <<storage_vars, registry_vars, outbound_vars>>

\* lines 133-138: request.payload["actions"][0]["action_id"] can be read
HasActionId(p) ==
    /\ "actions" \in DOMAIN p
    /\ Len(p.actions) > 0
    /\ "action_id" \in DOMAIN p.actions[1]

\* IntDispatch without the try/except around the read of the action id: the
\* KeyError or IndexError escapes
IntDispatchUncaught ==
    /\ pc["interactive"] = "acked"
    /\ LET p == request.payload
       IN  IF ~HasActionId(p)
           THEN /\ pc' = [pc EXCEPT !["interactive"] = "raised"]
                /\ UNCHANGED <<launched, hstate, hcalls, harg>>
           ELSE IF p.actions[1].action_id \notin DOMAIN plugin_actions.interactive
           THEN /\ pc' = [pc EXCEPT !["interactive"] = "returned"]
                /\ UNCHANGED <<launched, hstate, hcalls, harg>>
           ELSE IF "response_url" \notin DOMAIN p
           THEN /\ pc' = [pc EXCEPT !["interactive"] = "raised"]
                /\ UNCHANGED <<launched, hstate, hcalls, harg>>
           ELSE LET cmd == plugin_actions.interactive[p.actions[1].action_id]
                IN  /\ launched' = [launched EXCEPT !["interactive"] = {cmd}]
                    /\ Call({cmd}, p)
                    /\ pc' = [pc EXCEPT !["interactive"] = "await_fn"]
    /\ UNCHANGED <<request, received, acks, respond_to_msg, msg_event, hsteps, hvalues, hpost,
                   payload, looked_up>>
    /\ UNCHANGED <<storage_vars, registry_vars, outbound_vars>>

\* lines 133-146; Interactive.__init__ reads cmd_payload["response_url"]
IntDispatch ==
    /\ pc["interactive"] = "acked"
    /\ LET p == request.payload
       IN  IF ~HasActionId(p)
           THEN /\ pc' = [pc EXCEPT !["interactive"] = "returned"]
                /\ UNCHANGED <<launched, hstate, hcalls, harg>>
           ELSE IF p.actions[1].action_id \notin DOMAIN plugin_actions.interactive
           THEN /\ pc' = [pc EXCEPT !["interactive"] = "returned"]
                /\ UNCHANGED <<launched, hstate, hcalls, harg>>
           ELSE IF "response_url" \notin DOMAIN p
           THEN \* KeyError out of _gen_interactive, outside the try
                /\ pc' = [pc EXCEPT !["interactive"] = "raised"]
                /\ UNCHANGED <<launched, hstate, hcalls, harg>>
           ELSE LET cmd == plugin_actions.interactive[p.actions[1].action_id]
                IN  /\ launched' = [launched EXCEPT !["interactive"] = {cmd}]
                    /\ Call({cmd}, p)
                    /\ pc' = [pc EXCEPT !["interactive"] = "await_fn"]
    /\ UNCHANGED <<request, received, acks, respond_to_msg, msg_event, hsteps, hvalues, hpost,
                   payload, looked_up>>
    /\ UNCHANGED <<storage_vars, registry_vars, outbound_vars>>

\* View.__init__ taking the last response URL instead of the first
ViewWebhookClientLast(cmd_payload) ==
    IF "response_urls" \in DOMAIN cmd_payload /\ Len(cmd_payload.response_urls) > 0
    THEN cmd_payload.response_urls[Len(cmd_payload.response_urls)].response_url
    ELSE "None"

\* View.__init__, view.py lines 33-38: the URL of the webhook client, made from
\* the first of response_urls, or "None" when there is none
ViewWebhookClient(cmd_payload) ==
    IF "response_urls" \in DOMAIN cmd_payload /\ Len(cmd_payload.response_urls) > 0
    THEN cmd_payload.response_urls[1].response_url
    ELSE "None"

\* View.say, view.py lines 115-125, called by the handler of a view as a step of
\* its code: nothing is sent and None is returned without a webhook client;
\* otherwise the message is sent to the client's URL and its response returned
Say(h) ==
    /\ h \in {plugin_actions.view[c] : c \in DOMAIN plugin_actions.view}
    /\ Runnable(h)
    /\ hsteps[h] < MaxSteps
    /\ hsteps' = [hsteps EXCEPT ![h] = @ + 1]
    /\ LET webhook_client == ViewWebhookClient(harg[h])
       IN  IF webhook_client = "None"
           THEN /\ sent' = sent
                /\ say_ret' = "None"
           ELSE /\ \E ephemeral \in BOOLEAN :
                     sent' = Append(sent, [url |-> webhook_client,
                                           response_type |-> IF ephemeral THEN "ephemeral"
                                                             ELSE "in_channel"])
                /\ say_ret' = "WebhookResponse"
    /\ UNCHANGED <<request, received, pc, acks, respond_to_msg, msg_event, launched, hstate,
                   hcalls, hvalues, hpost, harg, payload, looked_up>>
    /\ UNCHANGED <<storage_vars, registry_vars>>

\* lines 156-160
ViewAck ==
    /\ pc["view"] = "start"
    /\ request.type = "interactive" /\ request.payload.type = "view_submission"
    /\ SendAck("view", NoPayload)
    /\ pc' = [pc EXCEPT !["view"] = "acked"]
    /\ UNCHANGED <<request, received, respond_to_msg, msg_event, launched, hstate,
                   hsteps, hcalls, hvalues, hpost, harg, payload, looked_up>>
    /\ UNCHANGED <<storage_vars, registry_vars, outbound_vars>>

\* lines 162-166: request.payload["view"]["callback_id"] can be read
HasCallbackId(p) == "view" \in DOMAIN p /\ "callback_id" \in DOMAIN p.view

\* lines 162-173
ViewDispatch ==
    /\ pc["view"] = "acked"
    /\ LET p == request.payload
       IN  IF ~HasCallbackId(p)
           THEN /\ pc' = [pc EXCEPT !["view"] = "returned"]
                /\ UNCHANGED <<launched, hstate, hcalls, harg>>
           ELSE IF p.view.callback_id \notin DOMAIN plugin_actions.view
           THEN /\ pc' = [pc EXCEPT !["view"] = "returned"]
                /\ UNCHANGED <<launched, hstate, hcalls, harg>>
           ELSE LET cmd == plugin_actions.view[p.view.callback_id]
                IN  /\ launched' = [launched EXCEPT !["view"] = {cmd}]
                    /\ Call({cmd}, p)
                    /\ pc' = [pc EXCEPT !["view"] = "await_fn"]
    /\ UNCHANGED <<request, received, acks, respond_to_msg, msg_event, hsteps, hvalues, hpost,
                   payload, looked_up>>
    /\ UNCHANGED <<storage_vars, registry_vars, outbound_vars>>

-----------------------------------------------------------------------------
(* Specifications *)

\* what a handler call running as a task or awaited directly can do
TaskAct(h) ==
    \/ HStep(h)
    \/ HReturn(h)
    \/ HRaise(h)
    \/ HHang(h)

HandlerAct(h) ==
    \/ TaskAct(h)
    \/ \E v \in Values : HYield(h, v)

Next ==
    \/ \E d \in Listeners : Ignore(d)
    \/ MsgAck
    \/ HandleMessage
    \/ EvAck
    \/ EvDispatch
    \/ CmdUnknown
    \/ CmdGenStart
    \/ CmdGenAck
    \/ CmdPlainAck
    \/ CmdPlainCall
    \/ IntAck
    \/ IntDispatch
    \/ ViewAck
    \/ ViewDispatch
    \/ \E h \in Handlers : Say(h)
    \/ \E d \in {"message", "event"} : GatherReturn(d)
    \/ \E d \in {"message", "event"} : GatherRaise(d)
    \/ \E h \in Handlers : HandlerAct(h)

Spec == Init /\ [][Next]_vars

\* the fan-out alone: the two listeners of events_api requests, the requests for
\* which several handlers are gathered, and the fairness of the event loop, which
\* runs a task that is ready
GatherRequests ==
    EventsApi({[type |-> "reaction_added", user |-> U777],
               [type |-> "message", channel |-> "C1", channel_type |-> "channel",
                user |-> U777, text |-> bot_name \o <<":", " ">> \o DoThing]})

GatherInit == InitWith(GatherRequests)

GatherNext ==
    \/ MsgAck
    \/ HandleMessage
    \/ EvAck
    \/ EvDispatch
    \/ \E d \in {"message", "event"} : GatherReturn(d)
    \/ \E d \in {"message", "event"} : GatherRaise(d)
    \/ \E h \in Handlers : TaskAct(h)

GatherFairSpec ==
    GatherInit /\ [][GatherNext]_vars /\ WF_vars(\E h \in Handlers : TaskAct(h))

\* the message listener alone, with handlers that return at once: the
\* specification the mention matcher is checked under, over the generated texts
MentionInit == InitWith(MessageRequests(Texts, ChannelTypes \cup {"mpim"}))

MentionNext ==
    \/ MsgAck
    \/ HandleMessage
    \/ \E h \in MessageHandlerNames : HReturn(h)
    \/ GatherReturn("message")

MentionSpec == MentionInit /\ [][MentionNext]_vars

\* the requests that reach a handler: one of each kind the listeners serve
\* without waiting for a first produced value
AckRequests ==
    EventsApi({[type |-> "reaction_added", user |-> U777],
               [type |-> "message", channel |-> "C1", channel_type |-> "channel",
                user |-> U777, text |-> bot_name \o <<":", " ">> \o DoThing]})
        \cup {[type |-> "slash_commands", payload |-> [command |-> "hello"]],
              [type |-> "interactive",
               payload |-> [type |-> "block_actions", response_url |-> "https://hooks/1",
                            actions |-> <<[type |-> "button", action_id |-> "a1"]>>]],
              [type |-> "interactive",
               payload |-> [type |-> "view_submission",
                            view |-> [id |-> "V0", callback_id |-> "v1"]]]}

AckInit == InitWith(AckRequests)

\* a step of a listener's own code
ListenerStep ==
    \/ \E d \in Listeners : Ignore(d)
    \/ MsgAck
    \/ HandleMessage
    \/ EvAck
    \/ EvDispatch
    \/ CmdPlainAck
    \/ CmdPlainCall
    \/ IntAck
    \/ IntDispatch
    \/ ViewAck
    \/ ViewDispatch
    \/ \E d \in {"message", "event"} : GatherReturn(d)
    \/ \E d \in {"message", "event"} : GatherRaise(d)

AckNext ==
    \/ ListenerStep
    \/ \E h \in Handlers : TaskAct(h)

\* the listeners with handlers free to hang: the event loop runs a listener that
\* is ready (a listener does not loop, so every ready listener gets its step);
\* nothing is assumed about the handlers
AckFairSpec == AckInit /\ [][AckNext]_vars /\ WF_vars(ListenerStep)

\* a request no listener handles
IdleRequests == {[type |-> "hello", payload |-> EmptyDict]}

\* the storage backend alone, built from either side of the merge
StorageSpecInit ==
    /\ DispatchInit(IdleRequests)
    /\ StorageInit(Builds)
    /\ RegistryInit

StorageNext ==
    \/ \E k \in Keys, v \in StoredValues, e \in Expiries : Set(k, v, e)
    \/ \E k \in Keys : GetValue(k)
    \/ \E k \in Keys : Has(k)
    \/ \E k \in Keys : Delete(k)
    \/ Size
    \/ Tick

StorageSpec == StorageSpecInit /\ [][StorageNext]_vars

\* plugin registration alone
RegistryNext ==
    \/ \E k \in Kinds, t \in Triggers, f \in Functions : Register(k, t, f)
    \/ \E t \in EventTypes, n \in FunctionNames, f \in Functions : RegisterProcess(t, n, f)

RegistrySpec == InitWith(IdleRequests) /\ [][RegistryNext]_vars

-----------------------------------------------------------------------------
(* Vocabulary of the properties *)

\* listener d has sent the acknowledgement of the request's envelope
Acked(d) == \E i \in DOMAIN acks : acks[i].by = d

\* some code of the handler call has run
HasRun(h) == hsteps[h] > 0 \/ hstate[h] \in {"done", "failed", "hung"}

\* code of the generator handler located after its first produced value has run
HasRunPastFirstValue(h) ==
    \/ hpost[h] > 0
    \/ Len(hvalues[h]) >= 2
    \/ Len(hvalues[h]) = 1 /\ hstate[h] \in {"done", "failed", "hung"}

\* the handler call has ended the way its own code decides
Ended(h) == hstate[h] \in {"done", "failed", "hung"}

\* the message the message listener evaluates, as it was received
ReceivedMessage == Promote(received.payload.event)
ReceivedText == Get(ReceivedMessage, "text", <<>>)
IsMessageRequest == received.type = "events_api" /\ received.payload.event.type = "message"
HasSender == "user" \in DOMAIN ReceivedMessage /\ ReceivedMessage.user # bot_id
InChannel == ReceivedMessage.channel_type \in {"channel", "group"}
\* handle_message has run
Handled == pc["message"] \in {"gather", "returned", "raised"}

-----------------------------------------------------------------------------
(* Properties of the dispatchers *)

\* C1: whenever code of a handler call has run, the listener that made the call
\* has already sent the acknowledgement of the request's envelope; for an
\* incremental (generator) command handler this is required only of the code
\* located after its first produced value.
AckBeforeHandler ==
    \A d \in Listeners : \A h \in launched[d] :
        (IF is_generator[h] THEN HasRunPastFirstValue(h) ELSE HasRun(h)) => Acked(d)

\* C1 witness: a handler of a message has executed a step, after the acknowledgement
AckBeforeHandlerWitness ==
    /\ \E h \in launched["message"] : hsteps[h] > 0
    /\ Acked("message")

\* C2: when dispatch_listeners or dispatch_event_handlers has completed (returned
\* or raised), every handler call it launched has finished.
JoinWaitsForAll ==
    \A d \in {"message", "event"} :
        pc[d] \in {"returned", "raised"} =>
            \A h \in launched[d] : hstate[h] \in {"done", "failed"}

\* C3: no handler call launched for an event is ever cancelled, none is called a
\* second time, and once a handler launched for the event has raised, every
\* handler launched with it still ends the way its own code decides.
SiblingsRunToCompletion ==
    /\ [](\A d \in {"message", "event"} : \A h \in launched[d] :
            hstate[h] # "cancelled" /\ hstate[h] # "idle" /\ hcalls[h] = 1)
    /\ (\E d \in {"message", "event"} : \E g \in launched[d] : hstate[g] = "failed")
          ~> (\A d \in {"message", "event"} : \A h \in launched[d] : Ended(h))

\* C3 witness: the dispatcher has raised on a failed handler and a sibling has
\* executed its steps and returned
SiblingsRunToCompletionWitness ==
    \E d \in {"message", "event"} : \E g, h \in launched[d] :
        /\ pc[d] = "raised"
        /\ hstate[g] = "failed"
        /\ hstate[h] = "done" /\ hsteps[h] = MaxSteps

\* C4: for an incremental command at most one acknowledgement is ever sent;
\* once the handler has produced its first value and the dispatcher has gone on,
\* exactly one has been sent and its payload is that first value; and code of the
\* handler after the first value has run only if it has been sent.
IncrementalAck ==
    LET h == "CmdGen"
    IN  h \in launched["command"] =>
          /\ Len(acks) <= 1
          /\ (Len(hvalues[h]) >= 1 /\ pc["command"] # "got_payload") =>
                acks = <<[by |-> "command", payload |-> hvalues[h][1]]>>
          /\ HasRunPastFirstValue(h) => Len(acks) = 1

\* C4 witness: the handler produced two different values and the one
\* acknowledgement carries the first
IncrementalAckWitness ==
    /\ Len(hvalues["CmdGen"]) = 2
    /\ hvalues["CmdGen"][1] # hvalues["CmdGen"][2]
    /\ Len(acks) = 1 /\ acks[1].payload = hvalues["CmdGen"][1]

\* C5: when the dispatch of an incremental command has returned, the handler has
\* run to completion.
IncrementalRunsToCompletion ==
    (pc["command"] = "returned" /\ "CmdGen" \in launched["command"]) =>
        hstate["CmdGen"] = "done"

\* C6: for a slash-command request whose command is not in the registry no
\* acknowledgement is sent and no handler is called.
UnknownCommandIgnored ==
    (received.type = "slash_commands"
        /\ received.payload.command \notin DOMAIN plugin_actions.command) =>
        /\ acks = <<>>
        /\ \A h \in Handlers : hcalls[h] = 0 /\ hstate[h] = "idle"

\* C6 witness: the slash-command listener has returned from an unknown command
UnknownCommandIgnoredWitness ==
    /\ received.type = "slash_commands"
    /\ received.payload.command = "unknown"
    /\ pc["command"] = "returned"

-----------------------------------------------------------------------------
(* Properties of the mention matcher *)

\* C7: for a message in a channel or group whose text does not match the mention
\* pattern, no respond_to handler is called, and every handler called is a
\* listen_to handler whose trigger is found in the text.
NoRespondWithoutMention ==
    (IsMessageRequest /\ InChannel /\ ~MatcherMatch(ReceivedText).matched) =>
        \A h \in MessageHandlerNames :
            hcalls[h] > 0 =>
                /\ h \in Range(plugin_actions.listen_to)
                /\ h \notin Range(plugin_actions.respond_to)
                /\ Search(regex[h], ReceivedText)

\* C7 witness: a channel message that does not match, handled, with a listen_to
\* handler called and a respond_to handler whose trigger is in the text not called
NoRespondWithoutMentionWitness ==
    /\ IsMessageRequest /\ InChannel /\ ~MatcherMatch(ReceivedText).matched
    /\ Handled
    /\ hcalls["L2"] = 1
    /\ Search(regex["R1"], ReceivedText) /\ hcalls["R1"] = 0

\* C8: a message in a direct-message context with a sender other than the bot is
\* treated as addressed whether or not its text matches the mention pattern: the
\* handlers called are those of listen_to and respond_to together whose trigger
\* is found in the text handed over.
DirectMessageAddressed ==
    (IsMessageRequest /\ ~InChannel /\ HasSender /\ Handled) =>
        /\ respond_to_msg = "event"
        /\ \A h \in MessageHandlerNames :
              hcalls[h] = IF /\ Search(regex[h], Get(msg_event, "text", <<>>))
                             /\ (IsChanged(msg_event) => handle_message_changed[h])
                          THEN 1 ELSE 0

\* C8 witness: a direct message that does not match the pattern, with a
\* respond_to handler called
DirectMessageAddressedWitness ==
    /\ IsMessageRequest /\ ~InChannel /\ HasSender /\ Handled
    /\ ~MatcherMatch(ReceivedText).matched
    /\ hcalls["R1"] = 1

\* C9: the channel message "bot: do thing" (an alias and a colon) is treated as
\* addressed and its text becomes "do thing".
AliasColonAddressed ==
    (/\ IsMessageRequest /\ InChannel /\ HasSender /\ Handled
     /\ ReceivedText = ALIASES[1] \o <<":", " ">> \o DoThing) =>
        /\ respond_to_msg = "event"
        /\ Get(msg_event, "text", <<>>) = DoThing

\* C10: a channel or group message is treated as addressed (and offered to the
\* respond_to handlers) only if its text starts with the mention token of the
\* bot's id, with the bot's name and a colon, or with an alias and a colon.
AddressedOnlyByPrefix ==
    (IsMessageRequest /\ InChannel /\ HasSender /\ Handled) =>
        ((respond_to_msg = "event" \/ \E h \in Range(plugin_actions.respond_to) : hcalls[h] > 0) =>
            \/ StartsWith(ReceivedText, Mention(bot_id))
            \/ StartsWith(ReceivedText, bot_name \o <<":">>)
            \/ \E k \in DOMAIN ALIASES : StartsWith(ReceivedText, ALIASES[k] \o <<":">>))

\* the prefix by which a text addresses the bot by id or by name: the mention
\* token of the bot's id with an optional colon, or the bot's name and a colon
BotPrefixes == <<Mention(bot_id) \o <<":">>, Mention(bot_id), bot_name \o <<":">>>>
AddressedByIdOrName(s) == \E k \in DOMAIN BotPrefixes : StartsWith(s, BotPrefixes[k])

\* what is left of s after that prefix and one optional space
Remainder(s) ==
    LET k == CHOOSE j \in DOMAIN BotPrefixes :
                /\ StartsWith(s, BotPrefixes[j])
                /\ \A i \in 1..(j - 1) : ~StartsWith(s, BotPrefixes[i])
        r == SubSeq(s, Len(BotPrefixes[k]) + 1, Len(s))
    IN  IF r # <<>> /\ Head(r) = " " THEN Tail(r) ELSE r

\* C11: a channel or group message whose text starts with the mention token of
\* the bot's id or with the bot's name and a colon is treated as addressed, and
\* the text every called handler is handed is exactly what follows that prefix
\* and one optional space.
BotPrefixAddressed ==
    (IsMessageRequest /\ InChannel /\ HasSender /\ Handled /\ AddressedByIdOrName(ReceivedText)) =>
        /\ respond_to_msg = "event"
        /\ msg_event.text = Remainder(ReceivedText)
        /\ \A h \in MessageHandlerNames : hcalls[h] > 0 => harg[h].text = Remainder(ReceivedText)

\* C11 witness: "alice: do thing" in a channel, handled, and a respond_to handler
\* called with the text "do thing"
BotPrefixAddressedWitness ==
    /\ IsMessageRequest /\ InChannel /\ HasSender /\ Handled
    /\ ReceivedText = bot_name \o <<":", " ">> \o DoThing
    /\ hcalls["R1"] = 1 /\ harg["R1"].text = DoThing

\* the text mentions somebody who is not the bot: the pattern matches with a
\* user id other than the bot's, or with a name other than the bot's
MentionsOther(s) ==
    LET m == MatcherMatch(s)
    IN  /\ m.matched
        /\ \/ Truthy(m.atuser) /\ m.atuser # bot_id
           \/ Truthy(m.username) /\ m.username # bot_name

\* C12: a channel or group message that matches the pattern but mentions another
\* user id or another name is not addressed and the event dispatched is the
\* event as received (its text included): the handlers called are exactly the
\* listen_to handlers whose trigger is found in the original full text, and they
\* are handed that text.
OtherMentionUnchanged ==
    (IsMessageRequest /\ InChannel /\ HasSender /\ Handled /\ MentionsOther(ReceivedText)) =>
        /\ respond_to_msg = "None"
        /\ msg_event = ReceivedMessage
        /\ request.payload.event = (IF IsChanged(received.payload.event)
                                    THEN [received.payload.event EXCEPT !.message = ReceivedMessage]
                                    ELSE received.payload.event)
        /\ \A h \in MessageHandlerNames :
              /\ hcalls[h] = IF /\ h \in Range(plugin_actions.listen_to)
                                /\ Search(regex[h], ReceivedText)
                                /\ (IsChanged(ReceivedMessage) => handle_message_changed[h])
                             THEN 1 ELSE 0
              /\ hcalls[h] > 0 => harg[h].text = ReceivedText

\* C12 witness: "<@U999>: do thing" in a channel, handled, a listen_to handler
\* called with the full text and the respond_to handler with the same trigger not called
OtherMentionUnchangedWitness ==
    /\ IsMessageRequest /\ InChannel /\ HasSender /\ Handled
    /\ ReceivedText = Mention(U999) \o <<":", " ">> \o DoThing
    /\ hcalls["L2"] = 1 /\ harg["L2"].text = ReceivedText
    /\ hcalls["R1"] = 0

-----------------------------------------------------------------------------
(* Properties of handle_message *)

\* C13: for an event with subtype message_changed, what is evaluated and handed
\* over is the nested edited message carrying the channel, the channel type and
\* the message_changed marker of the event, its text being the edited text or,
\* when the message is addressed, the edited text without its addressing
\* prefix; no handler that did not opt in is ever called; and (the edited
\* message having a sender other than the bot) every candidate handler that
\* opted in and whose trigger is found in that text is called once with it.
EditedMessageDispatch ==
    (IsMessageRequest /\ IsChanged(received.payload.event)) =>
        LET outer == received.payload.event
            inner == outer.message
            edited == Get(inner, "text", <<>>)
            handed == Get(msg_event, "text", <<>>)
        IN  /\ \A h \in MessageHandlerNames : hcalls[h] > 0 => handle_message_changed[h]
            /\ (Handled /\ HasSender) =>
                  /\ msg_event.channel = outer.channel
                  /\ msg_event.channel_type = outer.channel_type
                  /\ msg_event.subtype = "message_changed"
                  /\ msg_event.user = inner.user
                  /\ \/ handed = edited
                     \/ /\ respond_to_msg = "event"
                        /\ MatcherMatch(edited).matched
                        /\ handed = MatcherMatch(edited).text
                  /\ \A h \in MessageHandlerNames :
                        (/\ handle_message_changed[h]
                         /\ Search(regex[h], handed)
                         /\ (h \in Range(plugin_actions.listen_to) \/ respond_to_msg = "event")) =>
                            /\ hcalls[h] = 1
                            /\ harg[h] = msg_event

\* C13 witness: the edit "alice: do thing" in a channel: the two handlers that
\* opted in are called with "do thing", the handler that did not is not called
\* although its trigger is in the text
EditedMessageDispatchWitness ==
    /\ IsMessageRequest /\ IsChanged(received.payload.event) /\ InChannel /\ Handled
    /\ ReceivedText = bot_name \o <<":", " ">> \o DoThing
    /\ hcalls["R1"] = 1 /\ harg["R1"].text = DoThing
    /\ hcalls["L2"] = 1
    /\ Search(regex["L1"], DoThing) /\ hcalls["L1"] = 0

-----------------------------------------------------------------------------
(* Properties of the generic event dispatcher *)

\* C14: for an events_api request whose event type is a key of the process
\* registry, a handler is called only after the generic-event listener has sent
\* its acknowledgement; once it has dispatched, every handler registered under
\* that type has been called exactly once with the event dict of the request,
\* as received, and no other process handler has been called; and when the
\* dispatch has returned, every one of them has finished.
ProcessEventDispatch ==
    (received.type = "events_api"
        /\ received.payload.event.type \in DOMAIN plugin_actions.process) =>
        LET registered == plugin_actions.process[received.payload.event.type]
        IN  /\ (\E h \in ProcessHandlerNames : hcalls[h] > 0) => Acked("event")
            /\ \A h \in ProcessHandlerNames \ registered : hcalls[h] = 0
            /\ pc["event"] \in {"gather", "returned", "raised"} =>
                  /\ launched["event"] = registered
                  /\ \A h \in registered :
                        hcalls[h] = 1 /\ harg[h] = received.payload.event
            /\ pc["event"] = "returned" => \A h \in registered : hstate[h] = "done"

\* C14 witness: the dispatch of a reaction_added event has returned, its three
\* handlers have finished, one of them having stayed suspended between steps of
\* its code and another having returned at once
ProcessEventDispatchWitness ==
    /\ received.type = "events_api" /\ received.payload.event.type = "reaction_added"
    /\ pc["event"] = "returned"
    /\ Cardinality(launched["event"]) = 3
    /\ \A h \in launched["event"] : hstate[h] = "done"
    /\ \E g, h \in launched["event"] : hsteps[g] = MaxSteps /\ hsteps[h] = 0

-----------------------------------------------------------------------------
(* Properties of the storage backend *)

\* C15: when get(key) or has(key) is called on a key last set with a ttl and not
\* deleted since, get returns the value set if fewer than ttl seconds have
\* elapsed since the set, and once ttl seconds have elapsed get returns None
\* and has returns 0 (false), the row still being in the table.
TtlExpiry ==
    \A k \in Keys :
        (result.key = k /\ k \in DOMAIN written /\ written[k].ttl # NoExpiry) =>
            LET elapsed == result.at - written[k].at
                ttl == written[k].ttl[1]
            IN  /\ k \in DOMAIN rows
                /\ result.op = "get" =>
                      result.got = IF elapsed < ttl THEN <<written[k].value>> ELSE <<>>
                /\ (result.op = "has" /\ elapsed >= ttl) => result.has = 0

-----------------------------------------------------------------------------
(* Properties of the registry *)

\* the handler of the latest registration of the trigger for the kind
Latest(kind, trigger) ==
    LET made == {i \in DOMAIN reg_log :
                    reg_log[i].kind = kind /\ reg_log[i].trigger = trigger}
    IN  IF made = {} THEN "absent"
        ELSE reg_log[CHOOSE i \in made : \A j \in made : j <= i].handler

\* C16: in each of the mappings listen_to, respond_to, interactive, view and
\* command, the lookup of a trigger returns the handler registered last under
\* that trigger for that kind (a handler registered earlier under it is not
\* returned any more), and a registration leaves the lookup of every other
\* trigger and of every other mapping as it was.
LatestRegistrationWins ==
    /\ [](\A k \in Kinds : \A t \in Triggers : Lookup(k, t) = Latest(k, t))
    /\ [][reg_log' # reg_log =>
            LET e == reg_log'[Len(reg_log')]
            IN  /\ \A k \in Kinds : \A t \in Triggers :
                      (k # e.kind \/ t # e.trigger) => Lookup(k, t)' = Lookup(k, t)
                /\ e.kind # "process" => registry'.process = registry.process]_vars

\* C16 witness: two handlers were registered under one trigger of one kind; the
\* lookup returns the second, the first is under no trigger of that mapping, and
\* the mapping holds another trigger
LatestRegistrationWinsWitness ==
    \E k \in Kinds : \E i, j \in DOMAIN reg_log :
        /\ i < j
        /\ reg_log[i].kind = k /\ reg_log[j].kind = k
        /\ reg_log[i].trigger = reg_log[j].trigger
        /\ reg_log[i].handler # reg_log[j].handler
        /\ Lookup(k, reg_log[j].trigger) = reg_log[j].handler
        /\ \A t \in DOMAIN registry[k] : registry[k][t] # reg_log[i].handler
        /\ \E t \in DOMAIN registry[k] : t # reg_log[j].trigger

-----------------------------------------------------------------------------
(* Properties of the message listener *)

\* the acknowledgements the message listener has sent
MessageAcks == {i \in DOMAIN acks : acks[i].by = "message"}

\* C17: for every events_api request, whatever the type or subtype of its
\* event, the message listener can always send its acknowledgement, does
\* nothing else before it has, and sends exactly one (a bare one); so it has
\* been sent when the message is skipped for want of a sender or because the
\* sender is the bot.
MessageRequestAcked ==
    (received.type = "events_api") =>
        /\ pc["message"] = "start" => (MessageAcks = {} /\ ENABLED MsgAck)
        /\ pc["message"] # "start" =>
              /\ Cardinality(MessageAcks) = 1
              /\ \A i \in MessageAcks : acks[i].payload = NoPayload

\* C17 witness: a message event sent by the bot itself has been skipped (no
\* handler called) and acknowledged
MessageRequestAckedWitness ==
    /\ IsMessageRequest
    /\ "user" \in DOMAIN ReceivedMessage /\ ReceivedMessage.user = bot_id
    /\ "text" \in DOMAIN ReceivedMessage
    /\ pc["message"] = "returned"
    /\ \A h \in MessageHandlerNames : hcalls[h] = 0
    /\ Acked("message")

\* C18: for a message event whose message (the nested edited message, for an
\* edit) has no user field or has the bot's own id as user, no listen_to or
\* respond_to handler is ever called.
NoHandlerWithoutSender ==
    (IsMessageRequest
        /\ ("user" \notin DOMAIN ReceivedMessage \/ ReceivedMessage.user = bot_id)) =>
        \A h \in MessageHandlerNames : hcalls[h] = 0 /\ hstate[h] = "idle"

\* C18 witness: an edit whose edited message was sent by the bot, with a text
\* holding triggers, while the event itself names another user: handled, and no
\* handler called
NoHandlerWithoutSenderWitness ==
    /\ IsMessageRequest /\ IsChanged(received.payload.event)
    /\ received.payload.event.user # bot_id
    /\ "user" \in DOMAIN ReceivedMessage /\ ReceivedMessage.user = bot_id
    /\ Search(regex["L2"], ReceivedText)
    /\ pc["message"] = "returned"
    /\ \A h \in MessageHandlerNames : hcalls[h] = 0

-----------------------------------------------------------------------------
(* Properties of the interactive and view listeners *)

\* the payload has no actions key, an empty actions array, or a first action
\* without action_id
NoActionId(p) ==
    \/ "actions" \notin DOMAIN p
    \/ p.actions = <<>>
    \/ "action_id" \notin DOMAIN p.actions[1]

\* the payload has no view, or a view without callback_id
NoCallbackId(p) == "view" \notin DOMAIN p \/ "callback_id" \notin DOMAIN p.view

\* listener d goes from the start to its acknowledgement and from there, by the
\* step next, to a normal return; it never raises and never awaits a handler
AckedThenReturns(d, ack, next) ==
    /\ pc[d] \in {"start", "acked", "returned"}
    /\ pc[d] = "start" => ENABLED ack
    /\ pc[d] # "start" => Acked(d)
    /\ pc[d] = "acked" => ENABLED next

\* C19: for a block_actions request from which no action id can be read and for
\* a view_submission request from which no callback id can be read, the
\* listener sends its acknowledgement and then returns normally: it never
\* raises, and no handler is ever called.
MalformedInteractiveDropped ==
    /\ (received.type = "interactive" /\ received.payload.type = "block_actions"
            /\ NoActionId(received.payload)) =>
          /\ AckedThenReturns("interactive", IntAck, IntDispatch)
          /\ \A h \in Handlers : hcalls[h] = 0
    /\ (received.type = "interactive" /\ received.payload.type = "view_submission"
            /\ NoCallbackId(received.payload)) =>
          /\ AckedThenReturns("view", ViewAck, ViewDispatch)
          /\ \A h \in Handlers : hcalls[h] = 0

\* C19 witness: a block_actions request with an empty actions array has been
\* acknowledged and its listener has returned
MalformedInteractiveDroppedWitness ==
    /\ received.type = "interactive" /\ received.payload.type = "block_actions"
    /\ "actions" \in DOMAIN received.payload /\ received.payload.actions = <<>>
    /\ pc["interactive"] = "returned"
    /\ Acked("interactive")

\* C20: for a block_actions request whose action id is registered and whose
\* payload has no response_url, no handler is called and the listener does not
\* raise.
MissingResponseUrlDropped ==
    (/\ received.type = "interactive" /\ received.payload.type = "block_actions"
     /\ ~NoActionId(received.payload)
     /\ received.payload.actions[1].action_id \in DOMAIN plugin_actions.interactive
     /\ "response_url" \notin DOMAIN received.payload) =>
        /\ \A h \in Handlers : hcalls[h] = 0
        /\ pc["interactive"] # "raised"

\* C21: for a view_submission request whose callback id is registered, the handler
\* registered under it, and no other, is called once, after the acknowledgement,
\* with the payload; the listener raises only if the handler does (the context
\* is built whether or not there is a response URL); without response_urls, or
\* with an empty one, say sends nothing and returns None; with response URLs,
\* every message goes to the first of them.
ViewHandlerInvoked ==
    (/\ received.type = "interactive" /\ received.payload.type = "view_submission"
     /\ ~NoCallbackId(received.payload)
     /\ received.payload.view.callback_id \in DOMAIN plugin_actions.view) =>
        LET p == received.payload
            h == plugin_actions.view[p.view.callback_id]
        IN  /\ \A g \in Handlers \ {h} : hcalls[g] = 0
            /\ hcalls[h] <= 1
            /\ hcalls[h] = 1 => (Acked("view") /\ harg[h] = p)
            /\ pc["view"] = "acked" => ENABLED ViewDispatch
            /\ pc["view"] \in {"await_fn", "returned", "raised"} => hcalls[h] = 1
            /\ pc["view"] = "raised" => hstate[h] = "failed"
            /\ IF "response_urls" \notin DOMAIN p \/ p.response_urls = <<>>
               THEN sent = <<>> /\ say_ret \in {"unset", "None"}
               ELSE /\ \A i \in DOMAIN sent : sent[i].url = p.response_urls[1].response_url
                    /\ say_ret = "unset" <=> sent = <<>>
                    /\ say_ret \in {"unset", "WebhookResponse"}

\* C21 witness: the handler of a view_submission whose payload has an empty
\* response_urls was called, called say, which returned None and sent nothing,
\* and returned
ViewHandlerInvokedWitness ==
    /\ received.type = "interactive" /\ received.payload.type = "view_submission"
    /\ "response_urls" \in DOMAIN received.payload /\ received.payload.response_urls = <<>>
    /\ hcalls["V1"] = 1 /\ hstate["V1"] = "done"
    /\ say_ret = "None" /\ sent = <<>>
    /\ pc["view"] = "returned"

\* C22: size() returns the number of stored entries, that is of the keys set and
\* not deleted since: one more after a set of a key that was not stored, the
\* same after a set that replaces, one less after a delete of a stored key.
SizeIsEntryCount ==
    result.op = "size" => result.size = Cardinality(DOMAIN written)

\* C23: for a message outside channels and groups (a direct message), when the
\* text matches the mention pattern the event handed to the handlers carries the
\* text group of the match, which is what follows a non-empty prefix of the
\* original text, whoever the prefix names; when it does not match, the event
\* handed over is the event as received.
DirectMessageText ==
    (IsMessageRequest /\ ~InChannel /\ HasSender /\ Handled) =>
        LET m == MatcherMatch(ReceivedText)
        IN  /\ m.matched =>
                  /\ msg_event = Put(ReceivedMessage, "text", m.text)
                  /\ \E n \in 1..Len(ReceivedText) : m.text = Drop(ReceivedText, n)
            /\ ~m.matched => msg_event = ReceivedMessage
            /\ \A h \in MessageHandlerNames : hcalls[h] > 0 => harg[h] = msg_event

\* C23 witness: the direct message "<@U999>: do thing", which names another
\* user, handled, a respond_to handler being called with the text "do thing"
DirectMessageTextWitness ==
    /\ IsMessageRequest /\ ~InChannel /\ HasSender /\ Handled
    /\ ReceivedText = Mention(U999) \o <<":", " ">> \o DoThing
    /\ hcalls["R1"] = 1 /\ harg["R1"].text = DoThing

-----------------------------------------------------------------------------
(* Properties of the acknowledgements *)

\* C24: for a slash-command request whose command is in the registry, at most
\* one acknowledgement is ever sent, and when the listener has finished (returned
\* or raised), whatever the handler did, exactly one has been sent.
KnownCommandAckedOnce ==
    (received.type = "slash_commands"
        /\ received.payload.command \in DOMAIN plugin_actions.command) =>
        /\ Len(acks) <= 1
        /\ pc["command"] \in {"returned", "raised"} => Len(acks) = 1

\* C25: for an events_api request delivered to both the message listener and the
\* generic-event listener, at most one acknowledgement of its envelope is sent
\* in total.
EnvelopeAckedAtMostOnce ==
    received.type = "events_api" => Len(acks) <= 1

\* the request is one listener d serves
Serves(d) ==
    CASE d \in {"message", "event"} -> received.type = "events_api"
      [] d = "command" -> received.type = "slash_commands"
      [] d = "interactive" ->
            received.type = "interactive" /\ received.payload.type = "block_actions"
      [] d = "view" ->
            received.type = "interactive" /\ received.payload.type = "view_submission"

\* C26: for a message, process, block-action, view-submission or non-incremental
\* slash-command event that reaches a handler, every listener serving the event
\* eventually sends its acknowledgement, whatever the handlers do, a handler that
\* never completes included.
AckEventuallySent ==
    <>(\A d \in Listeners : Serves(d) => Acked(d))

\* a handler never completes, the join of its event is stalled, and the
\* acknowledgement of that event has been sent
AckEventuallySentWitness ==
    \E d \in Listeners : \E h \in launched[d] :
        /\ hstate[h] = "hung"
        /\ pc[d] \in {"gather", "await_fn"}
        /\ Acked(d)

\* C27: in every reachable state of the storage backend, for every key, a call
\* of has(key) made now returns true (1) exactly when a call of get(key) made now
\* returns a value (not None): never set, set with or without a ttl, elapsed or
\* not, replaced or deleted, the two calls agree.
HasAgreesWithGet ==
    \A k \in Keys :
        (ENABLED (Has(k) /\ result'.has = 1)) <=> (ENABLED (GetValue(k) /\ result'.got # <<>>))

\* has was called on a key whose row is in the table with an expiry that has
\* passed, and said 0
HasAgreesWithGetWitness ==
    /\ result.op = "has" /\ result.has = 0
    /\ result.key \in DOMAIN rows
    /\ rows[result.key].expires # NoExpiry
    /\ rows[result.key].expires[1] <= clock

====
